---- MODULE Spec2Model ----
(***************************************************************************)
(* Model of app.py (Fitness Nutrition AI Assistant, a streamlit script).   *)
(*                                                                         *)
(*   Spec         the Food Diary: the "Log Food" handler and "Today's      *)
(*                Summary" of app.py:384-453, run by two browser sessions  *)
(*                over the one file food_log.json, step by step.           *)
(*   SpecSummary  Today's Summary over stored logs of up to MaxSummaryLog  *)
(*                entries.                                                 *)
(*   SpecEngine   calculate_calories, the BMI category and the macro        *)
(*                breakdown, app.py:147-216.                               *)
(*   SpecAdvisor  get_ai_response and generate_meal_plan_ai, app.py:16-115.*)
(*                                                                         *)
(* Python floats are modelled as IEEE-754 binary64 values with round to     *)
(* nearest even; see the float section.                                    *)
(***************************************************************************)
EXTENDS Integers, Sequences, FiniteSets, TLC

VARIABLES
    file,         \* content of food_log.json
    now,          \* the local clock, in clock instants
    pc,           \* pc[s]: where session s's script run stands
    inp,          \* inp[s]: the widgets' values (food_entry, estimated_calories)
    loaded,       \* loaded[s]: what json.load returned to the Log Food handler
    food_log,     \* food_log[s]: the handler's local list
    ts,           \* ts[s]: the value of the entry's first clock read
    entry,        \* entry[s]: the entry the handler built
    msg,          \* msg[s]: the message the handler showed (st.success / st.error)
    summary,      \* summary[s]: what Today's Summary rendered
    before,       \* before[s]: the file when s's run began          (history)
    othersWrote,  \* othersWrote[s]: another session touched the file since (history)
    concurrent,   \* concurrent[s]: sessions whose handler had read and not yet
                  \*                opened the file to write when s read (history)
    lastWriter,   \* the session whose json.dump completed last        (history)
    runs,         \* script runs begun so far
    engine,       \* SpecEngine: the profile and what the dashboard computed from it
    advisor       \* SpecAdvisor: the AI Advisor's client, calls and results

vars == <<file, now, pc, inp, loaded, food_log, ts, entry, msg, summary, before,
          othersWrote, concurrent, lastWriter, runs, engine, advisor>>

logVars == <<file, now, pc, inp, loaded, food_log, ts, entry, msg, summary, before,
             othersWrote, concurrent, lastWriter, runs>>

(***************************************************************************)
(* Bounds                                                                  *)
(***************************************************************************)
MaxRuns == 2         \* script runs (reruns and Log Food presses) of all sessions
MaxClock == 1        \* the clock stops ticking here
TicksPerDay == 1     \* clock instants per calendar day
MaxSummaryLog == 7   \* longest stored log SpecSummary starts from

Sessions == {"tabA", "tabB"}
Foods == {"oatmeal", "apple"}
CalorieInputs == {250}     \* st.number_input(0, 2000, step 10)

Max(a, b) == IF a >= b THEN a ELSE b
Min(a, b) == IF a <= b THEN a ELSE b

(***************************************************************************)
(* The log file.  Its content is a JSON array of entries, or text that is  *)
(* no JSON (an emptied or partly written file), or the file is missing.    *)
(***************************************************************************)
Missing == [kind |-> "missing", entries |-> <<>>]
Partial == [kind |-> "partial", entries |-> <<>>]

\* json.dump(food_log, f, indent=2), completed
Serialize(log) == [kind |-> "array", entries |-> log]

\* os.path.exists + json.load of the Log Food handler: the list, or the exception
ReadLogLenient(f) ==
    [ok |-> TRUE, value |-> f.entries]
ReadLog(f) ==
    IF f.kind = "missing" THEN [ok |-> TRUE, value |-> <<>>]
    ELSE IF f.kind = "array" THEN [ok |-> TRUE, value |-> f.entries]
    ELSE [ok |-> FALSE, value |-> <<>>]

\* strftime("%Y-%m-%d") and strftime("%H:%M") of a clock value
Day(t) == t \div TicksPerDay
TimeOfDay(t) == t % TicksPerDay

\* food_log.append(entry)
AppendEntryFront(log, e) == <<e>> \o log
AppendEntry(log, e) == Append(log, e)

NoEntry == [timestamp |-> 0, food |-> "", calories |-> 0, date |-> 0]

(***************************************************************************)
(* Today's Summary (app.py:429-453)                                        *)
(***************************************************************************)
DisplayCount == 5

\* [entry for entry in food_log if entry.get("date") == today]
TodayEntries(log, today) == SelectSeq(log, LAMBDA e : e.date = today)

\* sum(entry.get("calories", 0) for entry in today_entries)
RECURSIVE SumCalories(_)
SumCalories(entries) ==
    IF entries = <<>> THEN 0
    ELSE Head(entries).calories + SumCalories(Tail(entries))

\* today_entries[-5:]
LastFive(entries) ==
    SubSeq(entries, Max(1, Len(entries) - DisplayCount + 1), Len(entries))

\* total_calories as the metric shows it
TotalOfShown(entries) == SumCalories(LastFive(entries))
TotalCalories(entries) == SumCalories(entries)

\* the line written for one entry: "HH:MM: food (calories kcal)"
ShownLine(e) ==
    [time |-> TimeOfDay(e.timestamp), food |-> e.food, calories |-> e.calories]

NoSummary ==
    [status |-> "none", food_log |-> <<>>, today |-> 0, today_entries |-> <<>>,
     total_calories |-> 0, shown |-> <<>>]

\* What Today's Summary renders for file content f on day `today`:
\*   "start"    no file: st.info("Start logging food ...")
\*   "error"    the file is no JSON: st.error("Error loading food log ...")
\*   "no_today" no entry of today: st.info("No food entries for today yet.")
\*   "ok"       the metric and the last entries
SummaryViewNoExistsCheck(f, today) ==
    [NoSummary EXCEPT !.status = "error", !.today = today]
SummaryView(f, today) ==
    IF f.kind = "missing" THEN
        [NoSummary EXCEPT !.status = "start", !.today = today]
    ELSE IF f.kind # "array" THEN
        [NoSummary EXCEPT !.status = "error", !.today = today]
    ELSE LET sel == TodayEntries(f.entries, today) IN
        IF sel = <<>> THEN
            [NoSummary EXCEPT !.status = "no_today", !.today = today,
                              !.food_log = f.entries]
        ELSE
            [status |-> "ok", food_log |-> f.entries, today |-> today,
             today_entries |-> sel,
             total_calories |-> TotalCalories(sel),
             shown |-> [i \in 1..Len(LastFive(sel)) |-> ShownLine(LastFive(sel)[i])]]

(***************************************************************************)
(* The Food Diary, one script run per session (app.py:384-453)             *)
(***************************************************************************)
\* the other sessions saw the file change
Touched(s) == [t \in Sessions |-> IF t = s THEN othersWrote[t] ELSE TRUE]

\* A script run begins; the page is cleared.
BeginRun(s, next) ==
    /\ pc[s] = "idle"
    /\ runs < MaxRuns
    /\ runs' = runs + 1
    /\ pc' = [pc EXCEPT ![s] = next]
    /\ msg' = [msg EXCEPT ![s] = "none"]
    /\ summary' = [summary EXCEPT ![s] = NoSummary]
    /\ loaded' = [loaded EXCEPT ![s] = <<>>]
    /\ food_log' = [food_log EXCEPT ![s] = <<>>]
    /\ ts' = [ts EXCEPT ![s] = 0]
    /\ entry' = [entry EXCEPT ![s] = NoEntry]
    /\ before' = [before EXCEPT ![s] = file]
    /\ othersWrote' = [othersWrote EXCEPT ![s] = FALSE]
    /\ concurrent' = [t \in Sessions |-> IF t = s THEN {} ELSE concurrent[t] \ {s}]
    /\ UNCHANGED <<file, now, lastWriter, engine, advisor>>

\* The script reruns without the Log Food button: only the summary runs.
Rerun(s) ==
    /\ BeginRun(s, "summary")
    /\ inp' = [inp EXCEPT ![s] = [food |-> "", calories |-> 0]]

\* st.button("Log Food") with the widgets' values; `if food_entry:` (app.py:395-396)
LogFoodPressed(s, food, cal) ==
    /\ BeginRun(s, IF food # "" THEN "load" ELSE "summary")
    /\ inp' = [inp EXCEPT ![s] = [food |-> food, calories |-> cal]]

\* app.py:401-405: load the log, or take the empty list when no file exists
Load(s) ==
    /\ pc[s] = "load"
    /\ LET r == ReadLog(file) IN
        IF r.ok THEN
            /\ loaded' = [loaded EXCEPT ![s] = r.value]
            /\ food_log' = [food_log EXCEPT ![s] = r.value]
            /\ concurrent' = [concurrent EXCEPT ![s] =
                   {t \in Sessions \ {s} : pc[t] \in {"stamp", "date", "open"}}]
            /\ pc' = [pc EXCEPT ![s] = "stamp"]
            /\ UNCHANGED msg
        ELSE
            \* json.load raised: except Exception -> st.error (app.py:422-423)
            /\ msg' = [msg EXCEPT ![s] = "error_read"]
            /\ pc' = [pc EXCEPT ![s] = "summary"]
            /\ UNCHANGED <<loaded, food_log, concurrent>>
    /\ UNCHANGED <<file, now, inp, ts, entry, summary, before, othersWrote,
                   lastWriter, runs, engine, advisor>>

\* app.py:409: "timestamp": datetime.now().isoformat(), the first clock read
StampTimestamp(s) ==
    /\ pc[s] = "stamp"
    /\ ts' = [ts EXCEPT ![s] = now]
    /\ pc' = [pc EXCEPT ![s] = "date"]
    /\ UNCHANGED <<file, now, inp, loaded, food_log, entry, msg, summary, before,
                   othersWrote, concurrent, lastWriter, runs, engine, advisor>>

\* app.py:410-414: the rest of the entry, with the second clock read for "date",
\* and food_log.append(entry)
NewEntry(s) ==
    [timestamp |-> ts[s], food |-> inp[s].food, calories |-> inp[s].calories,
     date |-> Day(now)]

BuildEntry(s) ==
    /\ pc[s] = "date"
    /\ entry' = [entry EXCEPT ![s] = NewEntry(s)]
    /\ food_log' = [food_log EXCEPT ![s] = AppendEntry(food_log[s], NewEntry(s))]
    /\ pc' = [pc EXCEPT ![s] = "open"]
    /\ UNCHANGED <<file, now, inp, loaded, ts, msg, summary, before, othersWrote,
                   concurrent, lastWriter, runs, engine, advisor>>

\* app.py:417: open(log_file, "w") empties the file
OpenWrite(s) ==
    /\ pc[s] = "open"
    /\ file' = Partial
    /\ othersWrote' = Touched(s)
    /\ pc' = [pc EXCEPT ![s] = "dump"]
    /\ UNCHANGED <<now, inp, loaded, food_log, ts, entry, msg, summary, before,
                   concurrent, lastWriter, runs, engine, advisor>>

\* app.py:417: open(log_file, "w") raises (no permission): nothing is written
OpenWriteFails(s) ==
    /\ pc[s] = "open"
    /\ msg' = [msg EXCEPT ![s] = "error_open"]
    /\ pc' = [pc EXCEPT ![s] = "summary"]
    /\ UNCHANGED <<file, now, inp, loaded, food_log, ts, entry, summary, before,
                   othersWrote, concurrent, lastWriter, runs, engine, advisor>>

\* app.py:418: what json.dump(food_log, f, indent=2) writes
DumpContentLoaded(s) == Serialize(loaded[s])
DumpContent(s) == Serialize(food_log[s])

\* app.py:418-420: json.dump writes the whole list, the file is closed, st.success
Dump(s) ==
    /\ pc[s] = "dump"
    /\ file' = DumpContent(s)
    /\ othersWrote' = Touched(s)
    /\ lastWriter' = s
    /\ msg' = [msg EXCEPT ![s] = "success"]
    /\ pc' = [pc EXCEPT ![s] = "summary"]
    /\ UNCHANGED <<now, inp, loaded, food_log, ts, entry, summary, before,
                   concurrent, runs, engine, advisor>>

\* app.py:418, 422-423: a write of json.dump raises (disk full, I/O error): the
\* file keeps what had been written of the text, which is no JSON
DumpFails(s) ==
    /\ pc[s] = "dump"
    /\ file' = Partial
    /\ othersWrote' = Touched(s)
    /\ msg' = [msg EXCEPT ![s] = "error_write"]
    /\ pc' = [pc EXCEPT ![s] = "summary"]
    /\ UNCHANGED <<now, inp, loaded, food_log, ts, entry, summary, before,
                   concurrent, lastWriter, runs, engine, advisor>>

\* app.py:429-453
Summary(s) ==
    /\ pc[s] = "summary"
    /\ summary' = [summary EXCEPT ![s] = SummaryView(file, Day(now))]
    /\ pc' = [pc EXCEPT ![s] = "idle"]
    /\ UNCHANGED <<file, now, inp, loaded, food_log, ts, entry, msg, before,
                   othersWrote, concurrent, lastWriter, runs, engine, advisor>>

\* the local clock advances
Tick ==
    /\ now < MaxClock
    /\ now' = now + 1
    /\ UNCHANGED <<file, pc, inp, loaded, food_log, ts, entry, msg, summary, before,
                   othersWrote, concurrent, lastWriter, runs, engine, advisor>>

NoEngine == [status |-> "none"]
NoAdvisor == [status |-> "none"]

InitLog ==
    /\ now = 0
    /\ pc = [s \in Sessions |-> "idle"]
    /\ inp = [s \in Sessions |-> [food |-> "", calories |-> 0]]
    /\ loaded = [s \in Sessions |-> <<>>]
    /\ food_log = [s \in Sessions |-> <<>>]
    /\ ts = [s \in Sessions |-> 0]
    /\ entry = [s \in Sessions |-> NoEntry]
    /\ msg = [s \in Sessions |-> "none"]
    /\ summary = [s \in Sessions |-> NoSummary]
    /\ before = [s \in Sessions |-> Missing]
    /\ othersWrote = [s \in Sessions |-> FALSE]
    /\ concurrent = [s \in Sessions |-> {}]
    /\ lastWriter = "nobody"
    /\ runs = 0

\* No food_log.json exists before the first entry is logged.
Init ==
    /\ file = Missing
    /\ InitLog
    /\ engine = NoEngine
    /\ advisor = NoAdvisor

Next ==
    \/ \E s \in Sessions : Rerun(s)
    \/ \E s \in Sessions, food \in Foods \cup {""}, cal \in CalorieInputs :
           LogFoodPressed(s, food, cal)
    \/ \E s \in Sessions : Load(s)
    \/ \E s \in Sessions : StampTimestamp(s)
    \/ \E s \in Sessions : BuildEntry(s)
    \/ \E s \in Sessions : OpenWrite(s)
    \/ \E s \in Sessions : OpenWriteFails(s)
    \/ \E s \in Sessions : Dump(s)
    \/ \E s \in Sessions : DumpFails(s)
    \/ \E s \in Sessions : Summary(s)
    \/ Tick

Spec == Init /\ [][Next]_vars

(***************************************************************************)
(* SpecSummary: Today's Summary of one session over a stored log           *)
(***************************************************************************)
Viewer == "tabA"
SummaryDates == {0, 1}
SummaryCalories == {100, 250}

StoredEntries ==
    {[timestamp |-> d * TicksPerDay, food |-> "oatmeal", calories |-> c, date |-> d] :
        d \in SummaryDates, c \in SummaryCalories}

StoredLogs == UNION {[1..n -> StoredEntries] : n \in 0..MaxSummaryLog}

InitSummary ==
    /\ file \in {Serialize(log) : log \in StoredLogs}
    /\ InitLog
    /\ engine = NoEngine
    /\ advisor = NoAdvisor

NextSummary ==
    \/ Rerun(Viewer)
    \/ Summary(Viewer)
    \/ Tick

SpecSummary == InitSummary /\ [][NextSummary]_vars

(***************************************************************************)
(* Python floats: IEEE-754 binary64, round to nearest, ties to even.       *)
(* A positive float is [m |-> significand, e |-> exponent], value m * 2^e  *)
(* with 2^52 <= m < 2^53.  Significands exceed TLC's 32-bit integers, so    *)
(* naturals are kept as sequences of 15-bit limbs, least significant       *)
(* first, without leading zero limbs.  Every quantity of the dashboard is  *)
(* positive and far from the exponent limits, so signs, zeros, subnormals  *)
(* and overflow are left out.                                              *)
(***************************************************************************)
LimbBits == 15
LimbBase == 2^15
MantBits == 53
QuotLimbs == 4

\* The arithmetic is written as functions, whose arguments are values that
\* are computed once, and with set and sequence constructors in place of
\* recursion over the limbs: a carry is decided by looking back for the limb
\* that generates it.
Limbs == Seq(0..(LimbBase - 1))
Floats == [m : Limbs, e : Int]

SetMax(S) == CHOOSE x \in S : \A y \in S : y <= x

\* a without its leading zero limbs
BTrim[a \in Limbs] ==
    LET used == {i \in 1..Len(a) : a[i] # 0}
    IN  IF used = {} THEN <<>> ELSE SubSeq(a, 1, SetMax(used))

BLimb(a, i) == IF i <= Len(a) THEN a[i] ELSE 0

BFromInt[n \in Nat] ==
    BTrim[<<n % LimbBase, (n \div LimbBase) % LimbBase, n \div (LimbBase * LimbBase)>>]

\* a + b: limb i receives a carry when a limb below overflows and every limb
\* between is full
BAdd[a \in Limbs, b \in Limbs] ==
    LET n == Max(Len(a), Len(b)) + 1
        s == [i \in 1..n |-> BLimb(a, i) + BLimb(b, i)]
        carry(i) == \E j \in 1..(i - 1) :
                        /\ s[j] >= LimbBase
                        /\ \A k \in (j + 1)..(i - 1) : s[k] = LimbBase - 1
    IN  BTrim[[i \in 1..n |-> (s[i] + IF carry(i) THEN 1 ELSE 0) % LimbBase]]

\* a - b for a >= b: limb i lends when a limb below is short and every limb
\* between is zero
BSub[a \in Limbs, b \in Limbs] ==
    LET s == [i \in 1..Len(a) |-> a[i] - BLimb(b, i)]
        borrow(i) == \E j \in 1..(i - 1) :
                         /\ s[j] < 0
                         /\ \A k \in (j + 1)..(i - 1) : s[k] = 0
    IN  BTrim[[i \in 1..Len(a) |->
                  (s[i] + LimbBase - IF borrow(i) THEN 1 ELSE 0) % LimbBase]]

\* -1, 0, 1 as a < b, a = b, a > b
BCmp[a \in Limbs, b \in Limbs] ==
    IF Len(a) < Len(b) THEN -1
    ELSE IF Len(a) > Len(b) THEN 1
    ELSE LET differ == {i \in 1..Len(a) : a[i] # b[i]}
         IN  IF differ = {} THEN 0
             ELSE IF a[SetMax(differ)] < b[SetMax(differ)] THEN -1 ELSE 1

\* a * LimbBase^n
BShiftLimbs[a \in Limbs, n \in Nat] == IF a = <<>> THEN <<>> ELSE [i \in 1..n |-> 0] \o a

\* a * k for 0 <= k < LimbBase: the low halves of the limb products plus the
\* high halves one limb up
BMulSmall[a \in Limbs, k \in 0..(LimbBase - 1)] ==
    BAdd[[i \in 1..Len(a) |-> (a[i] * k) % LimbBase],
         <<0>> \o [i \in 1..Len(a) |-> (a[i] * k) \div LimbBase]]

\* a times the limbs i.. of b
BMulFrom[a \in Limbs, b \in Limbs, i \in Nat] ==
    IF i > Len(b) THEN <<>>
    ELSE BAdd[BMulSmall[a, b[i]], BShiftLimbs[BMulFrom[a, b, i + 1], 1]]

BMul[a \in Limbs, b \in Limbs] == BMulFrom[a, b, 1]

\* a * 2^n
BShl[a \in Limbs, n \in Nat] ==
    BMulSmall[BShiftLimbs[a, n \div LimbBits], 2^(n % LimbBits)]

\* a \div 2^n: each limb keeps its high bits and takes the low bits of the next
BShr[a \in Limbs, n \in Nat] ==
    LET w == n \div LimbBits
        k == n % LimbBits
    IN  IF w >= Len(a) THEN <<>>
        ELSE BTrim[[i \in 1..(Len(a) - w) |->
                       a[w + i] \div 2^k + (BLimb(a, w + i + 1) % 2^k) * 2^(LimbBits - k)]]

\* the number of bits of a limb
IntBitLen(n) == CHOOSE k \in 0..LimbBits : n < 2^k /\ (k = 0 \/ n >= 2^(k - 1))

BBitLen[a \in Limbs] ==
    IF a = <<>> THEN 0 ELSE LimbBits * (Len(a) - 1) + IntBitLen(a[Len(a)])

BIsOdd(a) == a # <<>> /\ a[1] % 2 = 1

\* q * 2^e as a float, for q of MantBits bits or, after a carry out of the
\* rounding, one more
FRenorm[q \in Limbs, e \in Int] ==
    IF BBitLen[q] > MantBits THEN [m |-> BShr[q, 1], e |-> e + 1] ELSE [m |-> q, e |-> e]

\* n * 2^e rounded at bit s, where q is n \div 2^s: up when the bits cut off
\* exceed half, or are half and q is odd
FRoundCut[n \in Limbs, q \in Limbs, s \in Nat, e \in Int] ==
    LET c == BCmp[BSub[n, BShl[q, s]], BShl[<<1>>, s - 1]]
    IN  FRenorm[IF c > 0 \/ (c = 0 /\ BIsOdd(q)) THEN BAdd[q, <<1>>] ELSE q, e + s]

\* The float nearest to n * 2^e (n > 0), ties to even.
FRound[n \in Limbs, e \in Int] ==
    LET len == BBitLen[n] IN
    IF len <= MantBits THEN [m |-> BShl[n, MantBits - len], e |-> e - (MantBits - len)]
    ELSE FRoundCut[n, BShr[n, len - MantBits], len - MantBits, e]

\* float(n) for an int 0 < n < 2^31
FInt[n \in Nat] == FRound[BFromInt[n], 0]

\* x * y
FMul[x \in Floats, y \in Floats] == FRound[BMul[x.m, y.m], x.e + y.e]

\* est, or est - 1 when est * d exceeds r
BDivFit[r \in Limbs, d \in Limbs, est \in 0..(LimbBase - 1)] ==
    IF BCmp[BMulSmall[d, est], r] > 0 THEN est - 1 ELSE est

\* One digit of schoolbook division, for r < d * LimbBase and a divisor d
\* whose top limb is at least LimbBase / 2: the estimate from the leading
\* limbs is the digit or exceeds it by at most 2.
BDivDigit[r \in Limbs, d \in Limbs] ==
    BDivFit[r, d, BDivFit[r, d,
        Min((BLimb(r, Len(d) + 1) * LimbBase + BLimb(r, Len(d))) \div d[Len(d)],
            LimbBase - 1)]]

\* digit g joins the quotient q and leaves r - g * d
BDivTake[q \in Limbs, r \in Limbs, d \in Limbs, g \in 0..(LimbBase - 1)] ==
    << <<g>> \o q, BSub[r, BMulSmall[d, g]] >>

\* The division carried one limb further down: up is <<quotient, remainder>>
\* of the limbs above, and a zero remainder over a zero limb stays zero.
BDivNext[up \in Limbs \X Limbs, limb \in 0..(LimbBase - 1), d \in Limbs] ==
    IF up[2] = <<>> /\ limb = 0 THEN << <<0>> \o up[1], <<>> >>
    ELSE BDivTake[up[1], <<limb>> \o up[2], d, BDivDigit[<<limb>> \o up[2], d]]

\* <<quotient, remainder>> of the limbs i.. of a by d, most significant first;
\* the leading Len(d) - 1 limbs are less than d and give no quotient digit
BDivLimbs[a \in Limbs, d \in Limbs, i \in Nat] ==
    IF i > Len(a) - (Len(d) - 1) THEN << <<>>, SubSeq(a, i, Len(a)) >>
    ELSE BDivNext[BDivLimbs[a, d, i + 1], a[i], d]

\* <<a \div d, a scaled remainder>> for d > 0, both scaled to make d's top limb
\* large; the quotient may keep leading zero limbs
BDivMod[a \in Limbs, d \in Limbs] ==
    BDivLimbs[BShl[a, LimbBits * Len(d) - BBitLen[d]],
              BShl[d, LimbBits * Len(d) - BBitLen[d]], 1]

\* the quotient followed by a sticky bit for a remainder that is not zero
BDivSticky[qr \in Limbs \X Limbs] ==
    BAdd[BAdd[qr[1], qr[1]], IF qr[2] = <<>> THEN <<>> ELSE <<1>>]

\* x / y: four more limbs of quotient than the significand holds, then rounded
FDiv[x \in Floats, y \in Floats] ==
    FRound[BDivSticky[BDivMod[BShiftLimbs[x.m, QuotLimbs], y.m]],
           x.e - y.e - (QuotLimbs * LimbBits + 1)]

\* x + y and x - y (for x > y), over the smaller of the two exponents
FAdd[x \in Floats, y \in Floats] ==
    IF x.e <= y.e THEN FRound[BAdd[x.m, BShl[y.m, y.e - x.e]], x.e]
    ELSE FRound[BAdd[BShl[x.m, x.e - y.e], y.m], y.e]

FSub[x \in Floats, y \in Floats] ==
    IF x.e <= y.e THEN FRound[BSub[x.m, BShl[y.m, y.e - x.e]], x.e]
    ELSE FRound[BSub[BShl[x.m, x.e - y.e], y.m], y.e]

\* x < y, x <= y
FLess[x \in Floats, y \in Floats] == x.e < y.e \/ (x.e = y.e /\ BCmp[x.m, y.m] < 0)
FLeq[x \in Floats, y \in Floats] == x = y \/ FLess[x, y]

\* a decimal literal n / 10^k of the source, as Python reads it: the float
\* nearest to the decimal, which is what the correctly rounded quotient of the
\* two integers is
FDec[n \in Nat, pow10 \in Nat] == FDiv[FInt[n], FInt[pow10]]

(***************************************************************************)
(* The nutrition engine (app.py:147-216)                                   *)
(***************************************************************************)
Genders == {"Male", "Female"}
ActivityLevels == {"Sedentary", "Light", "Moderate", "Active", "Very Active"}
DietTypes == {"Balanced", "Keto", "Vegan", "Low-Carb", "High-Protein", "Mediterranean"}
Goals == {"Lose Weight", "Maintain Weight", "Gain Muscle", "Improve Health"}
MacroNames == {"Carbs", "Protein", "Fat"}

\* A decimal literal of the source with three, or two, digits after the point
Milli(n) == FDec[n, 1000]
Percent(n) == FDec[n, 100]

\* the dict of app.py:155-160, in thousandths
activity_mult ==
    [a \in ActivityLevels |->
        CASE a = "Sedentary" -> 1200
          [] a = "Light" -> 1375
          [] a = "Moderate" -> 1550
          [] a = "Active" -> 1725
          [] a = "Very Active" -> 1900]

\* the coefficients of app.py:150 and app.py:152, in thousandths
MaleCoef == [base |-> 88362, weight |-> 13397, height |-> 4799, age |-> 5677]
FemaleCoef == [base |-> 447593, weight |-> 9247, height |-> 3098, age |-> 4330]

\* app.py:149-152: base + (cw * weight) + (ch * height) - (ca * age); every
\* gender but "Male" takes the else branch
Bmr(weight, height, age, gender) ==
    LET k == IF gender = "Male" THEN MaleCoef ELSE FemaleCoef
    IN  FSub[FAdd[FAdd[Milli(k.base), FMul[Milli(k.weight), weight]],
                  FMul[Milli(k.height), FInt[height]]],
             FMul[Milli(k.age), FInt[age]]]

\* app.py:165-171: the goal step; the else branch takes every other goal
GoalAdjustDeficit(tdee, goal) ==
    IF goal = "Gain Muscle" THEN FAdd[tdee, FInt[300]]
    ELSE IF goal \in {"Maintain Weight", "Improve Health"} THEN tdee
    ELSE FSub[tdee, FInt[500]]
GoalAdjust(tdee, goal) ==
    IF goal = "Lose Weight" THEN FSub[tdee, FInt[500]]
    ELSE IF goal = "Gain Muscle" THEN FAdd[tdee, FInt[300]]
    ELSE tdee

\* app.py:165-171 on the tdee of app.py:162; tdee is kept beside the value
\* returned
GoalStep(tdee, goal) ==
    [status |-> "ok", tdee |-> tdee, calories |-> GoalAdjust(tdee, goal)]

\* app.py:147-171; an activity level that is no key of the dict raises KeyError
calculate_calories(weight, height, age, gender, activity_level, goal) ==
    IF activity_level \notin DOMAIN activity_mult
    THEN [status |-> "KeyError"]
    ELSE GoalStep(FMul[Bmr(weight, height, age, gender),
                       Milli(activity_mult[activity_level])], goal)

\* x ** 2, the correctly rounded product
Square(x) == FMul[x, x]

\* app.py:183: weight / ((height/100) ** 2)
Bmi(weight, height) == FDiv[weight, Square(FDiv[FInt[height], FInt[100]])]

BmiLow == FDec[185, 10]
BmiMid == FInt[25]
BmiHigh == FInt[30]

\* app.py:184
BmiCategoryClosed(bmi) ==
    IF FLeq[BmiLow, bmi] /\ FLeq[bmi, BmiMid] THEN "Normal"
    ELSE IF FLess[bmi, BmiLow] THEN "Underweight"
    ELSE IF FLess[bmi, BmiHigh] THEN "Overweight"
    ELSE "Obese"
BmiCategory(bmi) ==
    IF FLeq[BmiLow, bmi] /\ FLess[bmi, BmiMid] THEN "Normal"
    ELSE IF FLess[bmi, BmiLow] THEN "Underweight"
    ELSE IF FLess[bmi, BmiHigh] THEN "Overweight"
    ELSE "Obese"

\* app.py:195-202, in hundredths
Split(carbs, protein, fat) == [Carbs |-> carbs, Protein |-> protein, Fat |-> fat]

macro_splits ==
    [d \in DietTypes |->
        CASE d = "Balanced" -> Split(50, 25, 25)
          [] d = "Keto" -> Split(5, 20, 75)
          [] d = "High-Protein" -> Split(30, 40, 30)
          [] d = "Low-Carb" -> Split(20, 35, 45)
          [] d = "Vegan" -> Split(55, 20, 25)
          [] d = "Mediterranean" -> Split(45, 25, 30)]

\* app.py:204: macro_splits.get(diet_type, macro_splits["Balanced"])
MacrosFor(diet_type) ==
    IF diet_type \in DOMAIN macro_splits THEN macro_splits[diet_type]
    ELSE macro_splits["Balanced"]

\* app.py:211-216
KcalPerGram(name) == IF name \in {"Carbs", "Protein"} THEN 4 ELSE 9

Grams(calories, ratio, name) == FDiv[FMul[calories, ratio], FInt[KcalPerGram(name)]]

MacroCaloriesAllFour(grams, name) == FMul[grams, FInt[4]]
MacroCalories(grams, name) == FMul[grams, FInt[KcalPerGram(name)]]

\* one pass of the loop of app.py:209-216
MacroRow(ratio, grams, name) ==
    [ratio |-> ratio, grams |-> grams, macro_calories |-> MacroCalories(grams, name)]

MacroOf(calories, ratio, name) == MacroRow(ratio, Grams(calories, ratio, name), name)

MacroBreakdown(calories, diet_type) ==
    [name \in MacroNames |-> MacroOf(calories, Percent(MacrosFor(diet_type)[name]), name)]

\* the sidebar's values (app.py:128-139); weight in half kilograms
Weight(p) == FDiv[FInt[p.weight2], FInt[2]]

EngineUnchanged ==
    UNCHANGED <<file, now, pc, inp, loaded, food_log, ts, entry, msg, summary,
                before, othersWrote, concurrent, lastWriter, runs, advisor>>

\* One run of the script over the sidebar's values, statement by statement.
\* app.py:174; a KeyError of calculate_calories ends the script.
ComputeCalories ==
    /\ engine.status = "input"
    /\ engine' = calculate_calories(Weight(engine.profile), engine.profile.height,
                                    engine.profile.age, engine.profile.gender,
                                    engine.profile.activity_level, engine.profile.goal)
                 @@ engine
    /\ EngineUnchanged

\* app.py:183
ComputeBmi ==
    /\ engine.status = "ok"
    /\ engine' = [status |-> "bmi",
                  bmi |-> Bmi(Weight(engine.profile), engine.profile.height)]
                 @@ engine
    /\ EngineUnchanged

\* app.py:184
ComputeBmiCategory ==
    /\ engine.status = "bmi"
    /\ engine' = [status |-> "category", bmi_category |-> BmiCategory(engine.bmi)]
                 @@ engine
    /\ EngineUnchanged

\* app.py:204-216
ComputeMacros ==
    /\ engine.status = "category"
    /\ engine' = [status |-> "done",
                  macros |-> MacroBreakdown(engine.calories, engine.profile.diet_type)]
                 @@ engine
    /\ EngineUnchanged

\* the widgets' defaults
DefaultProfile ==
    [gender |-> "Male", age |-> 30, weight2 |-> 140, height |-> 175,
     activity_level |-> "Sedentary", diet_type |-> "Balanced", goal |-> "Lose Weight"]

\* values passed where a selectbox value is expected
OtherActivity == "Extreme"
OtherDiet == "Paleo"
OtherGoal == "Get Fit"

SampleWeights2 == {80, 128, 135, 140, 148, 200, 240, 400}
SampleHeights == {140, 150, 160, 175, 200, 220}
SampleAges == {18, 30, 80}

Profiles ==
    {[DefaultProfile EXCEPT !.weight2 = w, !.height = h] :
        w \in SampleWeights2, h \in SampleHeights}
    \cup {[DefaultProfile EXCEPT !.gender = g, !.age = a, !.activity_level = act,
                                 !.goal = go] :
            g \in Genders, a \in SampleAges,
            act \in ActivityLevels \cup {OtherActivity}, go \in Goals \cup {OtherGoal}}
    \cup {[DefaultProfile EXCEPT !.diet_type = d, !.goal = go, !.weight2 = w] :
            d \in DietTypes \cup {OtherDiet}, go \in Goals \cup {OtherGoal},
            w \in {128, 140, 240}}

InitEngine ==
    /\ file = Missing
    /\ InitLog
    /\ engine \in {[status |-> "input", profile |-> p] : p \in Profiles}
    /\ advisor = NoAdvisor

NextEngine == ComputeCalories \/ ComputeBmi \/ ComputeBmiCategory \/ ComputeMacros

SpecEngine == InitEngine /\ [][NextEngine]_vars

(***************************************************************************)
(* The AI Advisor (app.py:16-115): get_azure_ai_client, get_ai_response     *)
(* ("ask") and generate_meal_plan_ai ("planMeal")                          *)
(***************************************************************************)
MaxOps == 2          \* advisor operations in one behaviour

Operations == {"ask", "planMeal"}
Replies == {"Eat more fibre.", "Oats at 7, lentils at 1."}    \* message.content of a reply
Failures == {"timed out", "401 Unauthorized"}    \* str(e) of what client.complete raises

\* app.py:38, app.py:66, app.py:69 and app.py:114
UnavailableMsg == "AI service is currently unavailable. Please try again later."
TroubleMsg == "I'm having trouble generating a response right now. Please try again."
ErrorMsg(e) == "Sorry, I encountered an error: " \o e \o ". Please try again."
MealPlanError(e) == "Error generating AI meal plan: " \o e
\* app.py:23 and app.py:30; the constructor's exception text is left out
ConfigError == "Missing Azure AI configuration. Please check your .env file."
InitError == "Failed to initialize Azure AI client"

\* what an operation hands back to its caller
Str(s) == [type |-> "str", value |-> s]
None == [type |-> "NoneType"]
NoReturn == [type |-> "pending"]

\* what client.complete does: a reply with choices, a reply without, or an
\* exception
NoReply == [kind |-> "none"]
RemoteOutcomes ==
    {[kind |-> "text", text |-> r] : r \in Replies}
    \cup {[kind |-> "empty"]}
    \cup {[kind |-> "raise", message |-> e] : e \in Failures}

\* get_azure_ai_client (app.py:16-31) under st.cache_resource: the first call
\* decides, later calls return what the first returned
Environments == {"configured", "missing", "init_fails"}
ClientFor(env) == IF env = "configured" THEN "client" ELSE "none"
CachedClient(cache, env) == IF cache = "unset" THEN ClientFor(env) ELSE cache
ClientErrors(cache, env) ==
    IF cache # "unset" \/ env = "configured" THEN {}
    ELSE IF env = "missing" THEN {ConfigError}
    ELSE {InitError}

\* get_ai_response: app.py:37-38 without a client, app.py:63-69 with one
AskReturnFixed(has_client, reply) ==
    IF has_client /\ reply.kind = "text" THEN Str(reply.text) ELSE Str(UnavailableMsg)
AskReturn(has_client, reply) ==
    IF ~has_client THEN Str(UnavailableMsg)
    ELSE IF reply.kind = "text" THEN Str(reply.text)
    ELSE IF reply.kind = "empty" THEN Str(TroubleMsg)
    ELSE Str(ErrorMsg(reply.message))

\* generate_meal_plan_ai: app.py:76-77 without a client, app.py:108-115 with one
PlanReturn(has_client, reply) ==
    IF has_client /\ reply.kind = "text" THEN Str(reply.text) ELSE None
PlanErrors(reply) == IF reply.kind = "raise" THEN {MealPlanError(reply.message)} ELSE {}

OpReturn(op, has_client, reply) ==
    IF op = "ask" THEN AskReturn(has_client, reply) ELSE PlanReturn(has_client, reply)

\* the values handed back after a failure, kept per operation
Remember(seen, op, ret) == [seen EXCEPT ![op] = @ \cup {ret}]

AdvisorIdle ==
    [status |-> "ready", cache |-> "unset", pc |-> "idle", op |-> "none",
     reply |-> NoReply, calls |-> 0, ret |-> NoReturn, shown |-> {},
     fallbacks |-> [op \in Operations |-> {}], ops |-> 0]

AdvisorUnchanged ==
    UNCHANGED <<file, now, pc, inp, loaded, food_log, ts, entry, msg, summary,
                before, othersWrote, concurrent, lastWriter, runs, engine>>

\* The first lines of either operation (app.py:35-38, app.py:74-77): fetch the
\* client and return at once when there is none.
Begin(op, env) ==
    /\ advisor.pc \in {"idle", "returned"}
    /\ advisor.ops < MaxOps
    /\ LET client == CachedClient(advisor.cache, env)
           ret == OpReturn(op, FALSE, NoReply)
       IN  advisor' =
               IF client = "none"
               THEN [advisor EXCEPT !.cache = client, !.op = op, !.pc = "returned",
                                    !.reply = NoReply, !.calls = 0, !.ret = ret,
                                    !.shown = ClientErrors(advisor.cache, env),
                                    !.fallbacks = Remember(@, op, ret),
                                    !.ops = @ + 1]
               ELSE [advisor EXCEPT !.cache = client, !.op = op, !.pc = "try",
                                    !.reply = NoReply, !.calls = 0, !.ret = NoReturn,
                                    !.shown = {}, !.ops = @ + 1]
    /\ AdvisorUnchanged

Ask == \E env \in Environments : Begin("ask", env)

PlanMeal == \E env \in Environments : Begin("planMeal", env)

\* client.complete (app.py:55-60, app.py:98-105), called once inside the try
Complete ==
    /\ advisor.pc = "try"
    /\ \E outcome \in RemoteOutcomes :
           advisor' = [advisor EXCEPT !.reply = outcome, !.calls = @ + 1,
                                      !.pc = "replied"]
    /\ AdvisorUnchanged

\* the rest of the try and its except (app.py:62-69, app.py:107-115)
Return ==
    /\ advisor.pc = "replied"
    /\ LET ret == OpReturn(advisor.op, TRUE, advisor.reply)
       IN  advisor' =
               [advisor EXCEPT !.ret = ret, !.pc = "returned",
                               !.shown = IF advisor.op = "planMeal"
                                         THEN PlanErrors(advisor.reply) ELSE {},
                               !.fallbacks = IF advisor.reply.kind = "text" THEN @
                                             ELSE Remember(@, advisor.op, ret)]
    /\ AdvisorUnchanged

InitAdvisor ==
    /\ file = Missing
    /\ InitLog
    /\ engine = NoEngine
    /\ advisor = AdvisorIdle

NextAdvisor == Ask \/ PlanMeal \/ Complete \/ Return

SpecAdvisor == InitAdvisor /\ [][NextAdvisor]_vars

(***************************************************************************)
(* Claims about the Food Diary                                             *)
(***************************************************************************)
\* s's run has ended with a stored entry and no other session touched the file
\* since the run began
AppendedAlone(s) ==
    /\ pc[s] = "idle"
    /\ msg[s] = "success"
    /\ ~othersWrote[s]

C2_ReadFailureKeepsFile ==
    [][\A s \in Sessions :
          (pc[s] = "load" /\ file.kind = "partial" /\ pc'[s] # "load") =>
              /\ file' = file
              /\ msg'[s] = "error_read"
              /\ pc'[s] = "summary"
              /\ food_log'[s] = food_log[s]]_vars

C2_Witness ==
    \E s \in Sessions : msg[s] = "error_read" /\ file.kind = "partial"

\* C3: whenever no session is between opening the file for writing and the end of
\* its write, the file, if it exists, deserializes to a sequence of entries.
C3_FileAlwaysDeserializes ==
    (\A s \in Sessions : pc[s] # "dump") => file.kind \in {"missing", "array"}

\* C4: when two sessions' appends both read the same collection L before either
\* wrote and both reported success, the file holds L followed by the one entry of
\* the session that wrote last; the other session's entry is not stored.
C4_LastWriteWins ==
    \A s, t \in Sessions :
        (/\ s # t /\ t \in concurrent[s] /\ loaded[t] = loaded[s]
         /\ msg[s] = "success" /\ msg[t] = "success") =>
            /\ lastWriter \in {s, t}
            /\ file = Serialize(Append(loaded[s], entry[lastWriter]))
            /\ Len(file.entries) = Len(loaded[s]) + 1

C4_Witness ==
    \E s, t \in Sessions :
        /\ s # t /\ t \in concurrent[s] /\ loaded[t] = loaded[s]
        /\ msg[s] = "success" /\ msg[t] = "success"
        /\ pc[s] = "idle" /\ pc[t] = "idle"
        /\ entry[s] # entry[t]
        /\ lastWriter = t
        /\ file.entries = <<entry[t]>>

\* C5: with no log file, and no other session writing, a run that only shows
\* Today's Summary renders the start message, no entries and no error, and leaves
\* no file; a run that appends creates the file with exactly one entry, the
\* appended one.
C5_MissingFile ==
    \A s \in Sessions :
        (pc[s] = "idle" /\ before[s] = Missing /\ ~othersWrote[s]) =>
            /\ (msg[s] = "none" /\ summary[s].status # "none") =>
                   /\ summary[s].status = "start"
                   /\ summary[s].food_log = <<>>
                   /\ summary[s].shown = <<>>
                   /\ file = Missing
            /\ msg[s] = "success" =>
                   /\ file.kind = "array"
                   /\ Len(file.entries) = 1
                   /\ file.entries[1] = entry[s]
                   /\ entry[s].food = inp[s].food

\* a summary-only run on no file, then the same session's append
C5_Witness ==
    \E s \in Sessions :
        /\ pc[s] = "idle" /\ before[s] = Missing /\ ~othersWrote[s]
        /\ msg[s] = "success"
        /\ pc = [t \in Sessions |-> "idle"]
        /\ lastWriter = s
        /\ runs = 2

\* C6: Today's Summary selects exactly the entries whose date is the target date,
\* in their original order; the total is the sum of the calories of all of them;
\* the lines shown are the last min(5, n) of them, in order.
RECURSIVE SumAt(_, _)
SumAt(log, idx) ==
    IF idx = {} THEN 0
    ELSE LET i == CHOOSE j \in idx : TRUE
         IN  log[i].calories + SumAt(log, idx \ {i})

C6_SummarizeDay ==
    LET v == summary[Viewer]
        log == file.entries
        idx == {i \in 1..Len(log) : log[i].date = v.today}
        n == Cardinality(idx)
        m == IF n < 5 THEN n ELSE 5
        Rank(i) == Cardinality({j \in idx : j <= i})
    IN  (pc[Viewer] = "idle" /\ v.status # "none") =>
            /\ v.status \in {"ok", "no_today"}
            /\ v.status = "no_today" <=> n = 0
            /\ Len(v.today_entries) = n
            /\ \A i \in idx : v.today_entries[Rank(i)] = log[i]
            /\ n > 0 =>
                   /\ v.total_calories = SumAt(log, idx)
                   /\ Len(v.shown) = m
                   /\ \A k \in 1..m :
                          LET e == v.today_entries[n - m + k]
                          IN  /\ v.shown[k].food = e.food
                              /\ v.shown[k].calories = e.calories
                              /\ v.shown[k].time = e.timestamp % TicksPerDay

C6_Witness ==
    /\ pc[Viewer] = "idle"
    /\ summary[Viewer].status = "ok"
    /\ Len(summary[Viewer].today_entries) > 5
    /\ Len(file.entries) > Len(summary[Viewer].today_entries)
    /\ \E i, j \in 1..Len(summary[Viewer].today_entries) :
           summary[Viewer].today_entries[i].calories
               # summary[Viewer].today_entries[j].calories

\* C11: every entry written by an append has a date equal to the calendar day
\* of its own timestamp, whenever the append runs, also when the clock passes
\* midnight between the two clock reads that build the entry.
C11_DateIsDayOfTimestamp ==
    file.kind = "array" =>
        \A i \in 1..Len(file.entries) :
            file.entries[i].date = Day(file.entries[i].timestamp)

(***************************************************************************)
(* Claims about the AI Advisor                                            *)
(***************************************************************************)
Returned == advisor.status = "ready" /\ advisor.pc = "returned"
Failed == advisor.cache = "none" \/ advisor.reply.kind \in {"empty", "raise"}

Evaluated == engine.status \notin {"none", "input"}
CaloriesReturned == engine.status \in {"ok", "bmi", "category", "done"}

C9_BmiCategory ==
    engine.status \in {"category", "done"} =>
        LET b == engine.bmi
            c == engine.bmi_category
        IN  /\ c \in {"Underweight", "Normal", "Overweight", "Obese"}
            /\ c = "Underweight" <=> FLess[b, BmiLow]
            /\ c = "Normal" <=> (~FLess[b, BmiLow] /\ FLess[b, BmiMid])
            /\ c = "Overweight" <=> (~FLess[b, BmiMid] /\ FLess[b, BmiHigh])
            /\ c = "Obese" <=> ~FLess[b, BmiHigh]
            /\ b = BmiLow => c = "Normal"
            /\ b = BmiMid => c = "Overweight"
            /\ b = BmiHigh => c = "Obese"

\* 100 kg at 200 cm: bmi is exactly 25
C9_Witness ==
    /\ engine.status = "category"
    /\ engine.bmi = BmiMid
    /\ engine.bmi_category = "Overweight"

\* |x - y| <= y * 2^-48
FClose(x, y) ==
    LET e == Min(x.e, y.e)
        xa == BShl[x.m, x.e - e]
        ya == BShl[y.m, y.e - e]
        diff == IF BCmp[xa, ya] >= 0 THEN BSub[xa, ya] ELSE BSub[ya, xa]
    IN  BCmp[BShl[diff, 48], ya] <= 0

\* the ratios of a diet type as floats, added left to right
FSum3(r) == FAdd[FAdd[Percent(r.Carbs), Percent(r.Protein)], Percent(r.Fat)]

RatiosOfTable ==
    /\ \A d \in DietTypes : FSum3(macro_splits[d]) = FInt[1]
    /\ macro_splits["Balanced"] = Split(50, 25, 25)

RatiosUsed ==
    /\ engine.profile.diet_type \in DietTypes =>
           \A name \in MacroNames :
               engine.macros[name].ratio
                   = Percent(macro_splits[engine.profile.diet_type][name])
    /\ engine.profile.diet_type \notin DietTypes =>
           /\ engine.macros["Carbs"].ratio = FDec[5, 10]
           /\ engine.macros["Protein"].ratio = FDec[25, 100]
           /\ engine.macros["Fat"].ratio = FDec[25, 100]

MacroCaloriesSum ==
    FAdd[FAdd[engine.macros["Carbs"].macro_calories,
              engine.macros["Protein"].macro_calories],
         engine.macros["Fat"].macro_calories]

\* C10 as stated: each listed diet type's ratios sum to 1.0, an unrecognized diet
\* type uses the Balanced ratios, each macro's calories (grams times 4, or 9 for
\* Fat) equal the calorie target times its ratio, and the three sum to the target.
C10_MacrosExact ==
    engine.status = "done" =>
        /\ RatiosOfTable
        /\ RatiosUsed
        /\ \A name \in MacroNames :
               engine.macros[name].macro_calories
                   = FMul[engine.calories, engine.macros[name].ratio]
        /\ MacroCaloriesSum = engine.calories

\* C10, amended: the same, with the two equalities of computed floats holding
\* within floating tolerance (a relative error of at most 2^-48).
C10_MacrosWithinTolerance ==
    engine.status = "done" =>
        /\ RatiosOfTable
        /\ RatiosUsed
        /\ \A name \in MacroNames :
               FClose(engine.macros[name].macro_calories,
                      FMul[engine.calories, engine.macros[name].ratio])
        /\ FClose(MacroCaloriesSum, engine.calories)

\* an unrecognized diet type, a Fat value that is not calories * ratio and a
\* sum that is not the calorie target
C10_Witness ==
    /\ engine.status = "done"
    /\ engine.profile.diet_type = OtherDiet
    /\ engine.macros["Fat"].ratio = FDec[25, 100]
    /\ engine.macros["Fat"].macro_calories
           # FMul[engine.calories, engine.macros["Fat"].ratio]
    /\ MacroCaloriesSum # engine.calories
    /\ FClose(MacroCaloriesSum, engine.calories)

====
